---- MODULE Spec2Model ----
(***************************************************************************)
(* Gym Scheduler (src/app/page.tsx): the session collection held in the    *)
(* Page component, its handlers, the two effects (load on mount, persist   *)
(* on every change of the collection) and the derived views.               *)
(*                                                                         *)
(* Representation.                                                         *)
(*  - A string that the code compares with localeCompare (start) is a      *)
(*    sequence of UTF-16 code units; every other string is a TLA+ string.  *)
(*  - An id is the ordinal of the generateId() call that produced it       *)
(*    (crypto.randomUUID is taken to return a fresh value on each call).   *)
(*  - A Session object is a function from its own keys to their values; a  *)
(*    key that is absent reads as undefined.                               *)
(*  - The text in the localStorage slot is its JSON syntax tree, with      *)
(*    tagged nodes [t |-> tag, v |-> payload].                             *)
(***************************************************************************)
EXTENDS Integers, Sequences, FiniteSets, TLC

\* ------------------------------------------------------------------ bounds

\* User events (handler calls and page reloads) taken in one behaviour.
MaxEvents == 3

\* ------------------------------------------------------------ constants

DAYS == <<"Monday", "Tuesday", "Wednesday", "Thursday", "Friday", "Saturday", "Sunday">>

TRAINING_FOCI == <<"Strength", "Hypertrophy", "Conditioning", "Mobility", "Skill", "Recovery">>

\* "HH:MM" as UTF-16 code units ('0' is 48, ':' is 58).
hhmm(h, m) == <<48 + (h \div 10), 48 + (h % 10), 58, 48 + (m \div 10), 48 + (m % 10)>>

SESSION_TEMPLATES ==
    << [name |-> "Lower Body Power", focus |-> "Strength", intensity |-> "High",
        duration |-> 75, location |-> "Main Weight Room",
        notes |-> "Hang power cleans, front squats, speed deadlifts, sled pushes. Finish with core anti-rotation."],
       [name |-> "Upper Body Push-Pull", focus |-> "Hypertrophy", intensity |-> "Medium",
        duration |-> 65, location |-> "Training Floor",
        notes |-> "Superset incline bench + chest-supported rows. Giant set shoulders + arms. Finish with accessory chest/back."],
       [name |-> "Tempo Run + Intervals", focus |-> "Conditioning", intensity |-> "High",
        duration |-> 50, location |-> "Track / Treadmill",
        notes |-> "10 min build, 3x8 min @ goal pace with 2 min float, finish with 6x30s hard sprints."],
       [name |-> "Controlled Mobility Flow", focus |-> "Mobility", intensity |-> "Low",
        duration |-> 40, location |-> "Studio B",
        notes |-> "CARS sequence, dynamic hip openers, thoracic rotation work, loaded carries for range control."],
       [name |-> "Olympic Lifting Technique", focus |-> "Skill", intensity |-> "Medium",
        duration |-> 55, location |-> "Platform Area",
        notes |-> "Snatch technical ladder, pause variations, jerk footwork, pulls with tempo focus."],
       [name |-> "Active Recovery Ride", focus |-> "Recovery", intensity |-> "Low",
        duration |-> 35, location |-> "Spin Room",
        notes |-> "Zone 2 spin, breathing drills, finish with light band work and foam rolling."] >>

DEFAULT_SESSION ==
    [name |-> "Untitled Session", focus |-> "Strength", intensity |-> "Medium",
     day |-> "Monday", start |-> hhmm(7, 0), duration |-> 60,
     location |-> "Main Floor", notes |-> "", completed |-> FALSE]

\* editingId === null
NoId == 0

\* ------------------------------------------------------- JavaScript helpers

\* Array.prototype.indexOf: the 0-based index of the first match, -1 when absent.
indexOf(arr, x) ==
    IF \E i \in 1..Len(arr) : arr[i] = x
    THEN (CHOOSE i \in 1..Len(arr) : arr[i] = x /\ \A j \in 1..(i - 1) : arr[j] # x) - 1
    ELSE -1

\* The object {}.
EmptyObject == [k \in {} |-> k]

\* Object spread { ...a, ...b }: b's keys override a's.
Spread(a, b) ==
    [k \in (DOMAIN a) \cup (DOMAIN b) |-> IF k \in DOMAIN b THEN b[k] ELSE a[k]]

\* An object without the keys in ks (rest destructuring).
Omit(o, ks) == [k \in (DOMAIN o) \ ks |-> o[k]]

\* Array.prototype.reduce((sum, session) => sum + session.duration, 0).
RECURSIVE sumDuration(_)
sumDuration(arr) ==
    IF arr = <<>> THEN 0 ELSE Head(arr).duration + sumDuration(Tail(arr))

\* String.prototype.localeCompare on the strings the time input produces
\* (digits and ':', or the empty string): the order of the code units, a
\* proper prefix first.
RECURSIVE localeCompare(_, _)
localeCompare(s, t) ==
    IF s = <<>> /\ t = <<>> THEN 0
    ELSE IF s = <<>> THEN -1
    ELSE IF t = <<>> THEN 1
    ELSE IF Head(s) < Head(t) THEN -1
    ELSE IF Head(s) > Head(t) THEN 1
    ELSE localeCompare(Tail(s), Tail(t))

\* ------------------------------------------------------------------ JSON

\* Nodes of a JSON text.
JNull == [t |-> "null"]
JNum(n) == [t |-> "num", v |-> n]
JStr(x) == [t |-> "str", v |-> x]
JBool(b) == [t |-> "bool", v |-> b]
JArr(elems) == [t |-> "arr", v |-> elems]
JObj(members) == [t |-> "obj", v |-> members]

\* What localStorage.getItem(STORAGE_KEY) can return: null (no item), the
\* empty string, a text that is not JSON, or a JSON text (one of the nodes).
NoItem == [t |-> "none"]
EmptyText == [t |-> "empty"]
Malformed == [t |-> "malformed"]

\* JSON.stringify of one property of a Session, by the property's type.
jsonOfField(k, x) ==
    IF k = "duration" THEN JNum(x)
    ELSE IF k = "completed" THEN JBool(x)
    ELSE JStr(x)

\* JSON.stringify(sessions): an array of objects, each with the session's
\* own keys (a key whose value is undefined is left out).
stringify(arr) ==
    JArr([i \in 1..Len(arr) |->
            JObj([k \in DOMAIN arr[i] |-> jsonOfField(k, arr[i][k])])])

\* JSON.parse(raw): throws a SyntaxError on a text that is not JSON.
parse(raw) ==
    IF raw.t = "malformed" THEN [threw |-> TRUE]
    ELSE [threw |-> FALSE, value |-> raw]

\* The JavaScript value of a parsed string, number or boolean; null stays null.
valueOf(j) == IF j.t = "null" THEN JNull ELSE j.v

\* Boolean(x) of a parsed property; absent is undefined.
toBoolean(o, k) ==
    IF k \notin DOMAIN o THEN FALSE
    ELSE IF o[k].t = "bool" THEN o[k].v
    ELSE IF o[k].t = "num" THEN o[k].v # 0
    ELSE IF o[k].t = "str" THEN o[k].v # ""
    ELSE o[k].t # "null"

\* x === undefined || x === null, for the ?? operator.
isNullish(o, k) == k \notin DOMAIN o \/ o[k].t = "null"

\* --------------------------------------------------------- pure functions

\* generateId(): the n-th call returns the n-th fresh value.
generateId(n) == n

\* The own properties the spread { ...session } copies from a parsed array
\* element: those of an object, none of a number or a boolean.
ownProperties(e) ==
    IF e.t = "obj" THEN [k \in DOMAIN e.v |-> valueOf(e.v[k])] ELSE EmptyObject

\* suggestBalancedWeek with the day taken from the id counter instead of
\* the template's index.
suggestBalancedWeekShifted(n) ==
    LET daysSequence == DAYS
        baseTimes == <<hhmm(6, 30), hhmm(7, 0), hhmm(18, 0), hhmm(9, 0), hhmm(8, 30),
                       hhmm(10, 0)>>
        templates == SubSeq(SESSION_TEMPLATES, 1, 6)
    IN [sessions |->
            [i \in 1..Len(templates) |->
                Spread([id |-> generateId(n + i - 1),
                        day |-> daysSequence[((n + i - 1) % Len(daysSequence)) + 1],
                        start |-> baseTimes[((i - 1) % Len(baseTimes)) + 1],
                        completed |-> FALSE],
                       templates[i])],
        nextId |-> n + Len(templates)]

\* suggestBalancedWeek(), with n the number of the next generateId() call.
suggestBalancedWeek(n) ==
    LET daysSequence == <<"Monday", "Tuesday", "Wednesday", "Thursday", "Friday",
                          "Saturday", "Sunday">>
        baseTimes == <<hhmm(6, 30), hhmm(7, 0), hhmm(18, 0), hhmm(9, 0), hhmm(8, 30),
                       hhmm(10, 0)>>
        templates == SubSeq(SESSION_TEMPLATES, 1, 6)
    IN [sessions |->
            [i \in 1..Len(templates) |->
                Spread([id |-> generateId(n + i - 1),
                        day |-> daysSequence[((i - 1) % Len(daysSequence)) + 1],
                        start |-> baseTimes[((i - 1) % Len(baseTimes)) + 1],
                        completed |-> FALSE],
                       templates[i])],
        nextId |-> n + Len(templates)]

\* normalize with id: generateId() in place of id: session.id ?? generateId().
normalizeFreshId(e, n) ==
    LET o == IF e.t = "obj" THEN e.v ELSE EmptyObject
    IN Spread(ownProperties(e),
              [id |-> generateId(n), completed |-> toBoolean(o, "completed")])

\* The callback of parsed.map in loadSessions, on element e, with n the
\* number of the next generateId() call.
normalize(e, n) ==
    LET o == IF e.t = "obj" THEN e.v ELSE EmptyObject
    IN Spread(ownProperties(e),
              [id |-> IF isNullish(o, "id") THEN generateId(n) ELSE valueOf(o["id"]),
               completed |-> toBoolean(o, "completed")])

\* The body of the try block of loadSessions on a text that is there:
\* JSON.parse(raw) and parsed.map(...). A TypeError is thrown when parsed is
\* null or has no map method, and when an element is null.
loadTry(raw, n) ==
    LET parsed == parse(raw)
    IN IF parsed.threw THEN [threw |-> TRUE]
       ELSE IF parsed.value.t # "arr" THEN [threw |-> TRUE]
       ELSE IF \E i \in 1..Len(parsed.value.v) : parsed.value.v[i].t = "null"
            THEN [threw |-> TRUE]
       ELSE LET elems == parsed.value.v
                \* the generateId() calls made before element i
                used[i \in 1..(Len(elems) + 1)] ==
                    IF i = 1 THEN 0
                    ELSE used[i - 1] +
                         (IF isNullish(IF elems[i - 1].t = "obj" THEN elems[i - 1].v ELSE EmptyObject, "id")
                          THEN 1 ELSE 0)
            IN [threw |-> FALSE,
                sessions |-> [i \in 1..Len(elems) |-> normalize(elems[i], n + used[i])],
                nextId |-> n + used[Len(elems) + 1]]

\* loadSessions without its catch block: the exception leaves the function.
loadSessionsUncaught(raw, n) ==
    IF raw.t = "none" \/ raw.t = "empty" THEN
        Spread(suggestBalancedWeek(n), [threw |-> FALSE])
    ELSE LET r == loadTry(raw, n)
         IN IF r.threw THEN [threw |-> TRUE, sessions |-> <<>>, nextId |-> n]
            ELSE r

\* loadSessions() in the browser (typeof window !== "undefined"; the effect
\* that calls it does not run on the server): raw is what getItem returned.
loadSessions(raw, n) ==
    IF raw.t = "none" \/ raw.t = "empty" THEN
        Spread(suggestBalancedWeek(n), [threw |-> FALSE])
    ELSE LET r == loadTry(raw, n)
         IN IF r.threw THEN Spread(suggestBalancedWeek(n), [threw |-> FALSE])
            ELSE r

\* saveSessions(sessions): what localStorage.setItem stores.
saveSessions(arr) == stringify(arr)

\* The comparator of handleSubmit's sort.
compareSessions(a, b) ==
    IF a.day = b.day THEN localeCompare(a.start, b.start)
    ELSE indexOf(DAYS, a.day) - indexOf(DAYS, b.day)

\* compareStart with its arguments swapped.
compareStartReversed(a, b) == localeCompare(b.start, a.start)

\* The comparator of byDay's sort.
compareStart(a, b) == localeCompare(a.start, b.start)

\* The call cmp(a, b) of a comparator passed by name.
call(cmp, a, b) ==
    IF cmp = "compareSessions" THEN compareSessions(a, b) ELSE compareStart(a, b)

\* Array.prototype.sort(cmp): stable (ES2019). Insertion puts an element
\* behind every earlier element that it does not precede.
insertSorted(x, arr, cmp) ==
    LET later == {i \in 1..Len(arr) : call(cmp, arr[i], x) > 0}
        p == IF later = {} THEN Len(arr) + 1
             ELSE CHOOSE i \in later : \A j \in later : i <= j
    IN SubSeq(arr, 1, p - 1) \o <<x>> \o SubSeq(arr, p, Len(arr))

stableSort(arr, cmp) ==
    LET done[i \in 0..Len(arr)] ==
            IF i = 0 THEN <<>> ELSE insertSorted(arr[i], done[i - 1], cmp)
    IN done[Len(arr)]

\* next.sort((a, b) => ...) in handleSubmit.
sortSessions(arr) == stableSort(arr, "compareSessions")

\* submitUpdater without the trailing sort.
submitUpdaterUnsorted(prev, editing, payload) ==
    IF editing # NoId
    THEN [i \in 1..Len(prev) |->
            IF prev[i].id = editing THEN Spread(prev[i], payload) ELSE prev[i]]
    ELSE prev \o <<payload>>

\* submitUpdater whose map does not test the id.
submitUpdaterAll(prev, editing, payload) ==
    LET next == IF editing # NoId
                THEN [i \in 1..Len(prev) |-> Spread(prev[i], payload)]
                ELSE prev \o <<payload>>
    IN sortSessions(next)

\* The updater handleSubmit passes to setSessions.
submitUpdater(prev, editing, payload) ==
    LET next == IF editing # NoId
                THEN [i \in 1..Len(prev) |->
                        IF prev[i].id = editing THEN Spread(prev[i], payload) ELSE prev[i]]
                ELSE prev \o <<payload>>
    IN sortSessions(next)

\* A delete by prev.splice(prev.findIndex(...), 1): index -1 drops the last.
deleteUpdaterSplice(prev, id) ==
    LET keep(session) == session.id # id
    IN IF \E i \in 1..Len(prev) : prev[i].id = id THEN SelectSeq(prev, keep)
       ELSE SubSeq(prev, 1, Len(prev) - 1)

\* The updater handleDelete passes to setSessions.
deleteUpdater(prev, id) ==
    LET keep(session) == session.id # id
    IN SelectSeq(prev, keep)

\* The updater toggleCompleted passes to setSessions.
toggleUpdater(prev, id) ==
    [i \in 1..Len(prev) |->
        IF prev[i].id = id
        THEN Spread(prev[i], [completed |-> ~prev[i].completed])
        ELSE prev[i]]

\* byDay
byDay(arr) ==
    [d \in 1..Len(DAYS) |->
        LET onDay(session) == session.day = DAYS[d]
        IN [day |-> DAYS[d], sessions |-> stableSort(SelectSeq(arr, onDay), "compareStart")]]

\* focusVolume whose total counts the completed sessions only.
focusVolumeCompletedOnly(arr) ==
    [f \in 1..Len(TRAINING_FOCI) |->
        LET hasFocusDone(session) == session.focus = TRAINING_FOCI[f] /\ session.completed
        IN [focus |-> TRAINING_FOCI[f],
            total |-> sumDuration(SelectSeq(arr, hasFocusDone)),
            completed |-> sumDuration(SelectSeq(arr, hasFocusDone))]]

\* focusVolume
focusVolume(arr) ==
    [f \in 1..Len(TRAINING_FOCI) |->
        LET hasFocus(session) == session.focus = TRAINING_FOCI[f]
            hasFocusDone(session) == session.focus = TRAINING_FOCI[f] /\ session.completed
        IN [focus |-> TRAINING_FOCI[f],
            total |-> sumDuration(SelectSeq(arr, hasFocus)),
            completed |-> sumDuration(SelectSeq(arr, hasFocusDone))]]

\* weeklyMinutes
weeklyMinutes(arr) == sumDuration(arr)

\* ------------------------------------------------------------------ state

VARIABLES
    sessions,   \* useState<Session[]>: the collection the current render sees
    draft,      \* useState: the form's draft (a Session without id)
    editingId,  \* useState: the id under edit, NoId for null
    storage,    \* localStorage's slot STORAGE_KEY
    pending,    \* the collection passed to setSessions by the mount effect
    nextId,     \* the number of the next generateId() call
    pc,         \* "mount", "mountPersist", "rerender", "persist", "idle", "crashed"
    lastOp,     \* the handler, mount effect or render that ran last ("create"
                \* and "update" for the two branches of handleSubmit)
    events,     \* user events taken so far
    quota,      \* what localStorage.setItem accepts for the slot
    mountSlot   \* history: what the slot held when the page was mounted,
                \* kept until the first user event after the mount

vars == <<sessions, draft, editingId, storage, pending, nextId, pc, lastOp, events, quota, mountSlot>>

\* generateId() calls made by earlier page loads.
PriorIds == 2

\* A session an earlier page load created from the default draft.
stored(i, d, s, c) ==
    Spread(DEFAULT_SESSION, [id |-> generateId(i), day |-> d, start |-> s, completed |-> c])

\* Collections an earlier page load has left in the slot.
StoredWeeks ==
    { <<stored(1, "Monday", hhmm(7, 0), TRUE)>>,
      <<stored(PriorIds, "Monday", hhmm(6, 30), FALSE), stored(1, "Monday", hhmm(7, 0), TRUE)>>,
      <<stored(1, "Wednesday", hhmm(7, 0), FALSE), stored(PriorIds, "Sunday", hhmm(5, 0), TRUE)>> }

\* Slot contents that are no session collection and make load fall back.
CorruptSlots == {EmptyText, Malformed, JNull, JArr(<<JNull>>)}

InitialSlots == {NoItem} \cup CorruptSlots \cup {saveSessions(w) : w \in StoredWeeks}

\* The size of a text of the slot, counted in JSON values (an object counts
\* one more than its members); no item and the empty string have size 0.
textSize(raw) ==
    IF raw.t \in {"none", "empty"} THEN 0
    ELSE IF raw.t # "arr" THEN 1
    ELSE LET elemSize(e) == IF e.t = "obj" THEN 1 + Cardinality(DOMAIN e.v) ELSE 1
             upTo[i \in 0..Len(raw.v)] ==
                 IF i = 0 THEN 1 ELSE upTo[i - 1] + elemSize(raw.v[i])
         IN upTo[Len(raw.v)]

\* The room the browser leaves the slot: none beyond a given size (the
\* origin's storage is full above it), or more than the page ever needs.
Limited(size) == [limited |-> TRUE, size |-> size]
Unlimited == [limited |-> FALSE, size |-> 0]

\* localStorage.setItem(STORAGE_KEY, text) stores the text; it throws a
\* QuotaExceededError when the text does not fit.
fits(text, q) == ~q.limited \/ textSize(text) <= q.size

\* The state after the first render of Page.
InitWith(slots) ==
    /\ sessions = <<>>
    /\ draft = DEFAULT_SESSION
    /\ editingId = NoId
    /\ storage \in slots
    /\ pending = <<>>
    /\ nextId = PriorIds + 1
    /\ pc = "mount"
    /\ lastOp = "render"
    /\ events = 0
    /\ quota \in {Limited(textSize(storage)), Unlimited}
    /\ mountSlot = storage

Init == InitWith(InitialSlots)

\* ---------------------------------------------------------------- effects

\* LoadEffect declared after the persistence effect: it reads the slot the
\* persistence effect of the first render has already cleared.
LoadEffectAfterPersist ==
    /\ pc = "mount"
    /\ LET r == loadSessions(IF Len(sessions) = 0 THEN NoItem ELSE storage, nextId)
       IN IF r.threw
          THEN /\ pc' = "crashed"
               /\ UNCHANGED <<pending, nextId>>
          ELSE /\ pending' = r.sessions
               /\ nextId' = r.nextId
               /\ pc' = "mountPersist"
    /\ lastOp' = "loadSessions"
    /\ UNCHANGED <<sessions, draft, editingId, storage, events, quota, mountSlot>>

\* useEffect(() => { setSessions(loadSessions()); }, [])
LoadEffect ==
    /\ pc = "mount"
    /\ LET r == loadSessions(storage, nextId)
       IN IF r.threw
          THEN /\ pc' = "crashed"
               /\ UNCHANGED <<pending, nextId>>
          ELSE /\ pending' = r.sessions
               /\ nextId' = r.nextId
               /\ pc' = "mountPersist"
    /\ lastOp' = "loadSessions"
    /\ UNCHANGED <<sessions, draft, editingId, storage, events, quota, mountSlot>>

\* persistSlot without the removeItem branch taken on an empty collection.
persistSlotKeepsOnEmpty(arr, slot, writes) ==
    IF Len(arr) = 0 THEN slot
    ELSE IF writes THEN saveSessions(arr)
    ELSE slot

\* The slot after the persistence effect ran on collection arr: removeItem
\* on an empty collection, else saveSessions, whose setItem either stores
\* the text (writes) or throws and leaves the slot as it was.
persistSlot(arr, slot, writes) ==
    IF Len(arr) = 0 THEN NoItem
    ELSE IF writes THEN saveSessions(arr)
    ELSE slot

\* The persistence effect on the collection of the current render. An
\* exception of localStorage.setItem (QuotaExceededError) is not caught:
\* it leaves the effect and React unmounts the tree.
PersistEffect ==
    /\ pc \in {"mountPersist", "persist"}
    /\ LET writes == fits(saveSessions(sessions), quota) IN
        /\ storage' = persistSlot(sessions, storage, writes)
        /\ pc' = IF Len(sessions) # 0 /\ ~writes THEN "crashed"
                 ELSE IF pc = "mountPersist" THEN "rerender"
                 ELSE "idle"
    /\ UNCHANGED <<sessions, draft, editingId, pending, nextId, lastOp, events, quota, mountSlot>>

\* The render that follows the mount effects takes the loaded collection.
Rerender ==
    /\ pc = "rerender"
    /\ sessions' = pending
    /\ pending' = <<>>
    /\ pc' = "persist"
    /\ lastOp' = "render"
    /\ UNCHANGED <<draft, editingId, storage, nextId, events, quota, mountSlot>>

\* --------------------------------------------------------------- handlers

\* The history of the mount after a user event.
Forgotten == [t |-> "forgotten"]

\* A handler runs on an idle, mounted page.
CanHandle == pc = "idle" /\ events < MaxEvents

\* Values the form's inputs pass to handleChange (a cleared time input
\* passes the empty string).
ChangeInputs ==
    { <<"day", "Wednesday">>, <<"day", "Sunday">>,
      <<"start", hhmm(5, 0)>>, <<"start", hhmm(18, 0)>>, <<"start", <<>>>>,
      <<"duration", 45>>, <<"focus", "Recovery">> }

handleChange(key, value) ==
    /\ CanHandle
    /\ draft' = [draft EXCEPT ![key] = value]
    /\ lastOp' = "handleChange"
    /\ events' = events + 1
    /\ UNCHANGED <<sessions, editingId, storage, pending, nextId, pc, quota>>
    /\ mountSlot' = Forgotten

applyTemplate(template) ==
    /\ CanHandle
    /\ draft' = Spread(draft, template)
    /\ lastOp' = "applyTemplate"
    /\ events' = events + 1
    /\ UNCHANGED <<sessions, editingId, storage, pending, nextId, pc, quota>>
    /\ mountSlot' = Forgotten

resetForm ==
    /\ CanHandle
    /\ draft' = DEFAULT_SESSION
    /\ editingId' = NoId
    /\ lastOp' = "resetForm"
    /\ events' = events + 1
    /\ UNCHANGED <<sessions, storage, pending, nextId, pc, quota>>
    /\ mountSlot' = Forgotten

\* The draft handleEdit sets for a session.
editDraft(session) ==
    LET rest == Omit(session, {"id"})
    IN Spread(rest,
              [notes |-> IF "notes" \in DOMAIN rest THEN rest.notes ELSE "",
               location |-> IF "location" \in DOMAIN rest THEN rest.location
                            ELSE DEFAULT_SESSION.location])

handleEdit(session) ==
    /\ CanHandle
    /\ draft' = editDraft(session)
    /\ editingId' = session.id
    /\ lastOp' = "handleEdit"
    /\ events' = events + 1
    /\ UNCHANGED <<sessions, storage, pending, nextId, pc, quota>>
    /\ mountSlot' = Forgotten

\* The payload of handleSubmit: { id: editingId ?? generateId(), ...draft }.
submitPayload(editing, d, n) ==
    Spread([id |-> IF editing # NoId THEN editing ELSE generateId(n)], d)

handleSubmit ==
    /\ CanHandle
    /\ sessions' = submitUpdater(sessions, editingId, submitPayload(editingId, draft, nextId))
    /\ nextId' = IF editingId # NoId THEN nextId ELSE nextId + 1
    /\ draft' = DEFAULT_SESSION
    /\ editingId' = NoId
    /\ pc' = "persist"
    /\ lastOp' = IF editingId # NoId THEN "update" ELSE "create"
    /\ events' = events + 1
    /\ UNCHANGED <<storage, pending, quota>>
    /\ mountSlot' = Forgotten

handleDelete(id) ==
    /\ CanHandle
    /\ sessions' = deleteUpdater(sessions, id)
    /\ IF editingId = id
       THEN draft' = DEFAULT_SESSION /\ editingId' = NoId
       ELSE UNCHANGED <<draft, editingId>>
    /\ pc' = "persist"
    /\ lastOp' = "handleDelete"
    /\ events' = events + 1
    /\ UNCHANGED <<storage, pending, nextId, quota>>
    /\ mountSlot' = Forgotten

toggleCompleted(id) ==
    /\ CanHandle
    /\ sessions' = toggleUpdater(sessions, id)
    /\ pc' = "persist"
    /\ lastOp' = "toggleCompleted"
    /\ events' = events + 1
    /\ UNCHANGED <<draft, editingId, storage, pending, nextId, quota>>
    /\ mountSlot' = Forgotten

autoBalance ==
    /\ CanHandle
    /\ sessions' = suggestBalancedWeek(nextId).sessions
    /\ nextId' = suggestBalancedWeek(nextId).nextId
    /\ draft' = DEFAULT_SESSION
    /\ editingId' = NoId
    /\ pc' = "persist"
    /\ lastOp' = "autoBalance"
    /\ events' = events + 1
    /\ UNCHANGED <<storage, pending, quota>>
    /\ mountSlot' = Forgotten

\* The user reloads the page: a new Page is mounted over the same slot.
Reload ==
    /\ pc \in {"idle", "crashed"}
    /\ events < MaxEvents
    /\ sessions' = <<>>
    /\ draft' = DEFAULT_SESSION
    /\ editingId' = NoId
    /\ pending' = <<>>
    /\ pc' = "mount"
    /\ lastOp' = "render"
    /\ events' = events + 1
    /\ mountSlot' = storage
    /\ UNCHANGED <<storage, nextId, quota>>

\* Ids a caller can pass to handleDelete and toggleCompleted: the ids of
\* the rendered sessions, and one that no session has.
IdInputs == {sessions[i].id : i \in 1..Len(sessions)} \cup {generateId(nextId)}

Next ==
    \/ LoadEffect
    \/ PersistEffect
    \/ Rerender
    \/ \E c \in ChangeInputs : handleChange(c[1], c[2])
    \/ \E i \in 1..Len(SESSION_TEMPLATES) : applyTemplate(SESSION_TEMPLATES[i])
    \/ resetForm
    \/ \E i \in 1..Len(sessions) : handleEdit(sessions[i])
    \/ handleSubmit
    \/ \E id \in IdInputs : handleDelete(id)
    \/ \E id \in IdInputs : toggleCompleted(id)
    \/ autoBalance
    \/ Reload

Spec == Init /\ [][Next]_vars

\* ------------------------------------------------- load on foreign slots

\* A well-formed session as JSON members, for building foreign slot texts.
storedMembers == stringify(<<stored(1, "Monday", hhmm(7, 0), TRUE)>>).v[1].v

restrictTo(o, ks) == [k \in (DOMAIN o) \cap ks |-> o[k]]

\* Array elements a foreign slot text can hold: null, a number, objects
\* with some or all of a session's members, with id and completed of the
\* wrong type.
ForeignElements ==
    { JNull, JNum(1),
      JObj(EmptyObject),
      JObj(storedMembers),
      JObj(Omit(storedMembers, {"id"})),
      JObj(Omit(storedMembers, {"completed"})),
      JObj(Omit(storedMembers, {"notes"})),
      JObj(restrictTo(storedMembers, {"name"})),
      JObj(Spread(storedMembers, [id |-> JNull])),
      JObj(Spread(storedMembers, [id |-> JStr(PriorIds), completed |-> JNum(1)])),
      JObj(Spread(storedMembers, [id |-> JStr(PriorIds), completed |-> JNull])) }

\* Longest array among the foreign slot texts.
MaxForeignLen == 2

ForeignSlots ==
    {NoItem, EmptyText, Malformed, JNull, JNum(7), JStr("x"), JBool(TRUE), JObj(EmptyObject)}
    \cup UNION { { JArr(a) : a \in [1..n -> ForeignElements] } : n \in 0..MaxForeignLen }

InitLoad == InitWith(ForeignSlots)

\* The mount of Page alone: the load effect, the persistence effect on the
\* initial collection, the render of the loaded collection and its
\* persistence effect.
NextLoad ==
    \/ LoadEffect
    \/ PersistEffect
    \/ Rerender

SpecLoad == InitLoad /\ [][NextLoad]_vars

\* ----------------------------------------------------------------- claims

idsOf(arr) == {arr[i].id : i \in 1..Len(arr)}

\* a is not behind b in (day index in DAYS, start) order.
notBehind(a, b) ==
    \/ indexOf(DAYS, a.day) < indexOf(DAYS, b.day)
    \/ a.day = b.day /\ localeCompare(a.start, b.start) <= 0

isSorted(arr) == \A i, j \in 1..Len(arr) : i < j => notBehind(arr[i], arr[j])

\* The mutators, as lastOp names them.
Mutators == {"create", "update", "handleDelete", "toggleCompleted", "autoBalance"}

\* The persistence effect that follows the last change of the collection
\* has run: to its end, or to an exception of setItem.
hookHasRun == pc \in {"idle", "crashed"}

\* What the slot holds when it mirrors collection arr.
mirrorOf(arr) == IF Len(arr) = 0 THEN NoItem ELSE stringify(arr)

\* The starter week, written out: template i on the i-th weekday at the
\* i-th start, not completed, without its id.
seededStarts == <<hhmm(6, 30), hhmm(7, 0), hhmm(18, 0), hhmm(9, 0), hhmm(8, 30), hhmm(10, 0)>>

seededSession(i) ==
    Spread(SESSION_TEMPLATES[i], [day |-> DAYS[i], start |-> seededStarts[i], completed |-> FALSE])

isSeededWeekUpToIds(arr) ==
    /\ Len(arr) = Len(seededStarts)
    /\ \A i \in 1..Len(arr) : Omit(arr[i], {"id"}) = seededSession(i)

\* The starter week whose ids are the last generated ones.
isSeededWeek(arr) ==
    /\ isSeededWeekUpToIds(arr)
    /\ \A i \in 1..Len(arr) : arr[i].id = generateId(nextId - Len(arr) + i - 1)

\* The slot makes loadSessions fall back: nothing stored, an empty text, a
\* text that is not JSON, JSON that is not an array, an array with a null.
fallsBack(raw) ==
    IF raw.t # "arr" THEN TRUE
    ELSE \E i \in 1..Len(raw.v) : raw.v[i].t = "null"

\* The slot holds a session collection: an array of objects that have every
\* member of a Session (notes is optional) with the member's type.
isSessionObject(e) ==
    /\ e.t = "obj"
    /\ ((DOMAIN DEFAULT_SESSION) \cup {"id"}) \ {"notes"} \subseteq DOMAIN e.v
    /\ \A k \in DOMAIN e.v :
          e.v[k].t = (IF k = "duration" THEN "num" ELSE IF k = "completed" THEN "bool" ELSE "str")

isSessionCollection(raw) ==
    IF raw.t # "arr" THEN FALSE
    ELSE \A i \in 1..Len(raw.v) : isSessionObject(raw.v[i])

\* C1: in every reachable state the collection is sorted by day index
\* (Monday first), then by start in code-unit order.
C1_Sorted == isSorted(sessions)

\* C1 witness: a created session was sorted to the front of a collection.
C1_Witness ==
    /\ lastOp = "create"
    /\ Len(sessions) >= 3
    /\ sessions[1].id = generateId(nextId - 1)

C3_RoundTrip ==
    pc = "idle" =>
        LET r == loadSessions(storage, nextId)
        IN IF Len(sessions) = 0
           THEN storage = NoItem /\ isSeededWeekUpToIds(r.sessions)
           ELSE r.sessions = sessions

\* C3 witness: the collection was emptied by a delete and the effect has run.
C3_Witness ==
    /\ lastOp = "handleDelete"
    /\ pc = "idle"
    /\ Len(sessions) = 0
    /\ storage = NoItem

\* C4 as stated: whenever the slot does not hold a session collection, load
\* returns the starter week of 6 sessions.
C4_InvalidFallsBack ==
    (pc = "mountPersist" /\ ~isSessionCollection(storage)) => isSeededWeek(pending)

\* C4 amended: load never raises; it returns the starter week when the slot
\* is unset or empty, is not JSON, is not a JSON array, or is an array with
\* a null element; any other array comes back element by element, with an
\* id and a boolean completed, whatever else the elements hold.
C4_LoadFallsBack ==
    /\ lastOp = "loadSessions" => pc # "crashed"
    /\ pc = "mountPersist" =>
          IF fallsBack(storage) THEN isSeededWeek(pending)
          ELSE /\ Len(pending) = Len(storage.v)
               /\ \A i \in 1..Len(pending) :
                     /\ DOMAIN pending[i] = (DOMAIN ownProperties(storage.v[i])) \cup {"id", "completed"}
                     /\ pending[i].completed \in BOOLEAN

\* C4 witness: load fell back on an array that holds a null.
C4_Witness ==
    /\ pc = "mountPersist"
    /\ storage = JArr(<<JNull, JNum(1)>>)
    /\ isSeededWeek(pending)

\* C5: a write that fails after a mutator leaves the page mounted, with the
\* mutator's collection: the persistence effect does not end by an exception.
C5_WriteFailureContained == lastOp \in Mutators => pc # "crashed"

\* C6: no two sessions of the collection have the same id.
C6_UniqueIds == \A i, j \in 1..Len(sessions) : i # j => sessions[i].id # sessions[j].id

\* C6 witness: an update ran on a collection of several sessions.
C6_Witness == lastOp = "update" /\ Len(sessions) >= 2

\* Two ids no session has: the next one to be generated, and the oldest one
\* that is gone from the collection.
unknownIds ==
    LET absent == (1..nextId) \ idsOf(sessions)
    IN {generateId(nextId), CHOOSE id \in absent : \A other \in absent : id <= other}

\* C7: on an id no session has, the updaters of update, remove and
\* toggleCompleted return the collection as it was: the same sessions with
\* the same values in the same order.
C7_UnknownIdNoOp ==
    \A id \in unknownIds :
        /\ submitUpdater(sessions, id, submitPayload(id, draft, nextId)) = sessions
        /\ deleteUpdater(sessions, id) = sessions
        /\ toggleUpdater(sessions, id) = sessions

\* C7 witness: the first event on the starter week was a delete, and all six
\* sessions are still there: the id was unknown.
C7_Witness ==
    /\ lastOp = "handleDelete"
    /\ events = 1
    /\ isSeededWeekUpToIds(sessions)

\* C8 as stated: a call returns the same collection, in every field, as the
\* next call will.
C8_SameWeekEveryCall ==
    lastOp = "autoBalance" => sessions = suggestBalancedWeek(nextId).sessions

\* C8 amended: every call (the fallback of load, auto-balance) returns the
\* same 6 sessions in every field but id; the ids are freshly generated.
C8_SameWeekUpToIds ==
    /\ lastOp = "autoBalance" => isSeededWeek(sessions)
    /\ (pc = "mountPersist" /\ fallsBack(storage)) => isSeededWeek(pending)

\* C8 witness: auto-balance ran after load had already seeded a week.
C8_Witness ==
    /\ lastOp = "autoBalance"
    /\ sessions[1].id >= generateId(PriorIds + 1 + Len(seededStarts))

\* The buckets of byDay joined in order.
joined(groups) ==
    LET upTo[d \in 0..Len(groups)] ==
            IF d = 0 THEN <<>> ELSE upTo[d - 1] \o groups[d].sessions
    IN upTo[Len(groups)]

\* C9: byDay has the seven days in order, each bucket holds sessions of its
\* day only, every session is in exactly one bucket, and the buckets joined
\* in order are the collection sorted by (day, start).
C9_GroupByDay ==
    LET groups == byDay(sessions)
    IN /\ Len(groups) = 7
       /\ \A d \in 1..Len(groups) :
             /\ groups[d].day = DAYS[d]
             /\ \A k \in 1..Len(groups[d].sessions) : groups[d].sessions[k].day = DAYS[d]
       /\ \A i \in 1..Len(sessions) :
             \E d \in 1..Len(groups) : \E k \in 1..Len(groups[d].sessions) :
                /\ groups[d].sessions[k] = sessions[i]
                /\ \A e \in 1..Len(groups) : \A m \in 1..Len(groups[e].sessions) :
                      groups[e].sessions[m] = sessions[i] => e = d /\ m = k
       /\ joined(groups) = sortSessions(sessions)

\* C9 witness: a day with two sessions of different start, and another day
\* with a session.
C9_Witness ==
    \E i, j, k \in 1..Len(sessions) :
        /\ sessions[i].day = sessions[j].day
        /\ sessions[i].start # sessions[j].start
        /\ sessions[k].day # sessions[i].day

\* C10: focusVolume has one entry per focus in TRAINING_FOCI's order, 0/0
\* for a focus without sessions, and the totals add up to weeklyMinutes.
C10_FocusVolumeSum ==
    LET volume == focusVolume(sessions)
        sumTo[f \in 0..Len(volume)] == IF f = 0 THEN 0 ELSE sumTo[f - 1] + volume[f].total
    IN /\ Len(volume) = Len(TRAINING_FOCI)
       /\ \A f \in 1..Len(volume) :
             /\ volume[f].focus = TRAINING_FOCI[f]
             /\ (\A i \in 1..Len(sessions) : sessions[i].focus # TRAINING_FOCI[f])
                   => volume[f].total = 0 /\ volume[f].completed = 0
       /\ sumTo[Len(volume)] = weeklyMinutes(sessions)

\* C10 witness: a focus with two sessions, a focus with none, and a session
\* that is not completed.
C10_Witness ==
    /\ \E i, j \in 1..Len(sessions) : i # j /\ sessions[i].focus = sessions[j].focus
    /\ \E f \in 1..Len(TRAINING_FOCI) :
          \A i \in 1..Len(sessions) : sessions[i].focus # TRAINING_FOCI[f]
    /\ \E i \in 1..Len(sessions) : ~sessions[i].completed

\* The three steps of a mount have run: the load effect, the persistence
\* effect of the first render, and the persistence effect of the render
\* that took the loaded collection; no handler has run since.
mountHasRun == lastOp = "render" /\ hookHasRun

\* C11: when the slot holds a non-empty session collection at mount, then
\* once the three steps of the mount have run, the collection in memory and
\* the slot both hold that collection, and the page has not crashed.
C11_StartupKeepsStored ==
    (mountHasRun /\ isSessionCollection(mountSlot) /\ Len(mountSlot.v) > 0) =>
        /\ pc = "idle"
        /\ saveSessions(sessions) = mountSlot
        /\ storage = mountSlot

\* C11 witness: a mount has kept a stored collection of two sessions in a
\* slot that has no room for more.
C11_Witness ==
    /\ mountHasRun
    /\ isSessionCollection(mountSlot)
    /\ Len(mountSlot.v) >= 2
    /\ quota.limited
    /\ storage = mountSlot
    /\ Len(sessions) = Len(mountSlot.v)

\* The step is handleSubmit on the edit form (editingId is set).
isUpdateStep == CanHandle /\ editingId # NoId /\ lastOp' = "update"

\* C12: submitting the edit form for a session leaves the session's
\* completed flag as it was in the collection right before the submit,
\* whatever begin-edit and toggleCompleted events came before.
C12_SubmitKeepsCompleted ==
    [][isUpdateStep =>
          \A i \in 1..Len(sessions) : \A j \in 1..Len(sessions') :
              (sessions[i].id = editingId /\ sessions'[j].id = editingId) =>
                  sessions'[j].completed = sessions[i].completed]_vars

====
